---- MODULE Spec2Model ----
(***************************************************************************)
(* A model of app.py: the two flat JSON stores (users.json,                *)
(* emissions.json), the store operations (add_user, update_user_type,      *)
(* add_emission), the per-user aggregator (compute_totals_for_user) and    *)
(* the two leaderboard builders.                                           *)
(*                                                                         *)
(* Numbers.  Amounts are integers.  A mass is kept in thousandths of a     *)
(* kilogram (1 = 0.001 kg), so that the division by 1000.0 of the gram     *)
(* branch stays exact.  A percentage that the code computes by a division  *)
(* is kept as the fraction [n, d] with d > 0.  subsidy_pct, which the code *)
(* rounds to one decimal, is kept in tenths of a percent (400 = 40.0).     *)
(* Only finite numbers are modelled (no NaN, no infinity), and arithmetic  *)
(* is exact where the code's is binary64.                                  *)
(*                                                                         *)
(* Strings on which the code works character by character (lower, strip)   *)
(* are sequences of one-character strings; the others are plain strings.   *)
(***************************************************************************)
EXTENDS Integers, Sequences, FiniteSets, TLC

VARIABLES
    usersFile,      \* users.json:     [kind, rows]
    emissionsFile,  \* emissions.json: [kind, rows]
    dataFile,       \* data.json: the dataset, or NoData when the file is absent
    resp,           \* what the last completed call returned (or raised)
    pc,             \* per in-flight request: "idle" | "loaded" | "done"
    snap,           \* per in-flight request: the data its load returned
    req,            \* per in-flight request: the arguments of its call
    initRows        \* the emissions rows of the initial state

vars == <<usersFile, emissionsFile, dataFile, resp, pc, snap, req, initRows>>

-----------------------------------------------------------------------------
(* Strings *)

None == <<"None">>          \* Python's None where a string is expected

S_empty == << >>
S_t == <<"t">>
S_tonne == <<"t","o","n","n","e">>
S_tonnes == <<"t","o","n","n","e","s">>
S_TONNES == <<"T","O","N","N","E","S">>
S_g == <<"g">>
S_gram == <<"g","r","a","m">>
S_Gram == <<"G","r","a","m">>
S_grams == <<"g","r","a","m","s">>
S_kg == <<"k","g">>
S_sp_t == <<" ","t">>
S_pending == <<"p","e","n","d","i","n","g">>
S_hospital == <<"h","o","s","p","i","t","a","l">>
S_manufacturer == <<"m","a","n","u","f","a","c","t","u","r","e","r">>
S_Manufacturer == <<"M","a","n","u","f","a","c","t","u","r","e","r">>
S_manufacturer_sp == <<"m","a","n","u","f","a","c","t","u","r","e","r"," ">>

UpperChars == <<"A","B","C","D","E","F","G","H","I","J","K","L","M",
                "N","O","P","Q","R","S","T","U","V","W","X","Y","Z">>
LowerChars == <<"a","b","c","d","e","f","g","h","i","j","k","l","m",
                "n","o","p","q","r","s","t","u","v","w","x","y","z">>

\* the lower-case letter of each upper-case letter
LowerMap ==
    [c \in {UpperChars[i] : i \in DOMAIN UpperChars} |->
        LowerChars[CHOOSE i \in DOMAIN UpperChars : UpperChars[i] = c]]

LowerChar(c) == IF c \in DOMAIN LowerMap THEN LowerMap[c] ELSE c

\* str.lower()
Lower(s) == [i \in 1..Len(s) |-> LowerChar(s[i])]

IsSpace(c) == c \in {" ", "\t", "\n", "\r"}

RECURSIVE LStrip(_)
LStrip(s) == IF s # << >> /\ IsSpace(Head(s)) THEN LStrip(Tail(s)) ELSE s

RECURSIVE RStrip(_)
RStrip(s) ==
    IF s # << >> /\ IsSpace(s[Len(s)]) THEN RStrip(SubSeq(s, 1, Len(s) - 1)) ELSE s

\* str.strip()
Strip(s) == RStrip(LStrip(s))

\* (x or ""): None and "" both give ""
OrEmpty(x) == IF x = None THEN S_empty ELSE x

-----------------------------------------------------------------------------
(* The JSON stores *)

NoFile == [kind |-> "absent", rows |-> << >>]

\* load_users: absent, unparseable or without "users" -> {"users": []}
load_users(file) ==
    IF file.kind = "absent" THEN [haskey |-> TRUE, rows |-> << >>]
    ELSE IF file.kind = "garbage" THEN [haskey |-> TRUE, rows |-> << >>]
    ELSE IF file.kind = "nokey" THEN [haskey |-> TRUE, rows |-> << >>]
    ELSE [haskey |-> TRUE, rows |-> file.rows]

\* load_emissions: absent or unparseable -> {"emissions": []}; a parsed
\* object is returned as it is, with or without its "emissions" key
load_emissions(file) ==
    IF file.kind = "absent" THEN [haskey |-> TRUE, rows |-> << >>]
    ELSE IF file.kind = "garbage" THEN [haskey |-> TRUE, rows |-> << >>]
    ELSE IF file.kind = "nokey" THEN [haskey |-> FALSE, rows |-> << >>]
    ELSE [haskey |-> TRUE, rows |-> file.rows]

\* NextId as a record count: len(rows) + 1
NextId_ByCount(rows) == Len(rows) + 1

\* max([r["id"] for r in rows], default=0) + 1
NextId(rows) ==
    IF rows = << >> THEN 1
    ELSE (CHOOSE m \in {rows[i].id : i \in DOMAIN rows} :
              \A j \in DOMAIN rows : rows[j].id <= m) + 1

\* the user dict add_user builds (password_hash and created_at are not kept)
NewUser(rows, email, name) ==
    [id |-> NextId(rows), email |-> email, name |-> name, user_type |-> S_pending]

\* the record dict add_emission builds (created_at is not kept)
NewEmission(rows, user_id, emission_type, amount, unit) ==
    [id |-> NextId(rows), user_id |-> user_id, type |-> emission_type,
     amount |-> amount, unit |-> unit]

\* find_user_by_email(email) is not None
EmailTaken(file, email) ==
    \E i \in DOMAIN load_users(file).rows : load_users(file).rows[i].email = email

\* update_user_type: the first user with that id gets the type; the file is
\* rewritten only when one is found
update_user_type(file, user_id, user_type) ==
    LET rows == load_users(file).rows
        hits == {i \in DOMAIN rows : rows[i].id = user_id}
    IN  IF hits = {} THEN file
        ELSE LET k == CHOOSE i \in hits : \A j \in hits : i <= j
             IN  [kind |-> "ok", rows |-> [rows EXCEPT ![k].user_type = user_type]]

-----------------------------------------------------------------------------
(* compute_totals_for_user *)

Totals0 == [co2 |-> 0, no2 |-> 0, ch4 |-> 0]

\* amount_kg without .lower(): the unit compared as typed
amount_kg_CaseSensitive(amount, unit) ==
    LET u == OrEmpty(unit)
    IN  IF u \in {S_tonne, S_tonnes, S_t} THEN amount * 1000 * 1000
        ELSE IF u \in {S_g, S_gram, S_grams} THEN amount
        ELSE amount * 1000

\* the unit normaliser, in thousandths of a kilogram
amount_kg(amount, unit) ==
    LET u == Lower(OrEmpty(unit))
    IN  IF u \in {S_tonne, S_tonnes, S_t} THEN amount * 1000 * 1000
        ELSE IF u \in {S_g, S_gram, S_grams} THEN amount
        ELSE amount * 1000

RECURSIVE ScanTotals(_, _, _)
ScanTotals(rows, user_id, totals) ==
    IF rows = << >> THEN totals
    ELSE LET e == Head(rows)
         IN  ScanTotals(Tail(rows), user_id,
                 IF e.user_id # user_id THEN totals
                 ELSE IF e.type \notin DOMAIN totals THEN totals
                 ELSE [totals EXCEPT ![e.type] = @ + amount_kg(e.amount, e.unit)])

\* returns the totals, or raises KeyError at data["emissions"]
compute_totals_for_user(file, user_id) ==
    LET data == load_emissions(file)
    IN  IF ~data.haskey THEN [exc |-> "KeyError", totals |-> Totals0]
        ELSE [exc |-> "none", totals |-> ScanTotals(data.rows, user_id, Totals0)]

-----------------------------------------------------------------------------
(* Rounding, clamping, sorting *)

Zero == [n |-> 0, d |-> 1]

\* round(x, 1) of the fraction x, in tenths.  Python rounds the binary value
\* to the nearest tenth; where the exact value lies halfway between two
\* tenths the binary value may lie on either side, and bias (0 or 1) says
\* which neighbour results.
RoundTenths(x, bias) ==
    LET t == 10 * x.n
        q == t \div x.d
        r == t % x.d
    IN  IF 2 * r < x.d THEN q
        ELSE IF 2 * r > x.d THEN q + 1
        ELSE q + bias

\* max(0.0, min(40.0, x)) of a fraction
ClampFrac(x) ==
    IF x.n > 40 * x.d THEN [n |-> 40, d |-> 1]
    ELSE IF x.n < 0 THEN Zero
    ELSE x

\* ClampTenths without max(0.0, ...)
ClampTenths_NoFloor(t) == IF t > 400 THEN 400 ELSE t

\* max(0.0, min(40.0, t)) of a value in tenths
ClampTenths(t) == IF t > 400 THEN 400 ELSE IF t < 0 THEN 0 ELSE t

RECURSIVE InsertByKg(_, _)
InsertByKg(s, e) ==
    IF s = << >> THEN <<e>>
    ELSE LET l == s[Len(s)]
         IN  IF l.emissions_kg <= e.emissions_kg THEN Append(s, e)
             ELSE Append(InsertByKg(SubSeq(s, 1, Len(s) - 1), e), l)

RECURSIVE SortFrom(_, _)
SortFrom(entries, acc) ==
    IF entries = << >> THEN acc
    ELSE SortFrom(Tail(entries), InsertByKg(acc, Head(entries)))

\* list.sort(key=lambda x: x["emissions_kg"]): ascending and stable
SortByKg(entries) == SortFrom(entries, << >>)

-----------------------------------------------------------------------------
(* build_leaderboards_from_emissions *)

\* the entry dict before finalize_group (icon is not kept)
Entry(name, kg) ==
    [name |-> name, emissions_kg |-> kg, reduction_pct |-> Zero, subsidy_pct |-> 0]

\* u.get("name") or u.get("email")
NameOf(u) == IF u.name = "" THEN u.email ELSE u.name

\* (u.get("user_type") or "").lower().strip()
RawType(u) == Strip(Lower(OrEmpty(u.user_type)))

\* anything unknown -> hospital
GroupOf(u) ==
    LET raw_type == RawType(u)
    IN  IF raw_type \notin {S_hospital, S_manufacturer} THEN S_hospital ELSE raw_type

\* co2 + no2 + ch4 of a totals dict
TotalKg(totals) == totals.co2 + totals.no2 + totals.ch4

\* Skipped with < for <=: a user whose total is 0 is listed
Skipped_Strict(total_kg) == total_kg < 0

\* total_kg <= 0: the user is skipped
Skipped(total_kg) == total_kg <= 0

\* the loop over all_users; acc is [exc, hospitals, manufacturers].  An
\* exception of compute_totals_for_user ends the call.
RECURSIVE UserLoop(_, _, _)
UserLoop(all_users, file, acc) ==
    IF all_users = << >> THEN acc
    ELSE LET u == Head(all_users)
             t == compute_totals_for_user(file, u.id)
             total_kg == TotalKg(t.totals)
             entry == Entry(NameOf(u), total_kg)
             group == GroupOf(u)
         IN  IF t.exc # "none"
             THEN [exc |-> t.exc, hospitals |-> << >>, manufacturers |-> << >>]
             ELSE UserLoop(Tail(all_users), file,
                      IF Skipped(total_kg) THEN acc
                      ELSE IF group = S_hospital
                      THEN [acc EXCEPT !.hospitals = Append(@, entry)]
                      ELSE IF group = S_manufacturer
                      THEN [acc EXCEPT !.manufacturers = Append(@, entry)]
                      ELSE acc)

\* max(e["emissions_kg"] for e in entries), entries not empty
MaxKg(entries) ==
    CHOOSE m \in {entries[i].emissions_kg : i \in DOMAIN entries} :
        \A j \in DOMAIN entries : entries[j].emissions_kg <= m

\* RelReduction relative to the entry's own emissions
RelReduction_ByOwn(max_kg, kg) == [n |-> (max_kg - kg) * 100, d |-> kg]

\* rel = (max_kg - e["emissions_kg"]) / max_kg * 100.0
RelReduction(max_kg, kg) == [n |-> (max_kg - kg) * 100, d |-> max_kg]

\* SubsidyOfRel without the clamp
SubsidyOfRel_NoClamp(rel, bias) == RoundTenths(rel, bias)

\* round(max(0.0, min(40.0, rel)), 1)
SubsidyOfRel(rel, bias) == RoundTenths(ClampFrac(rel), bias)

\* SortedGroup without the sort
SortedGroup_AsBuilt(entries) == entries

\* the order finalize_group leaves a scored group in
SortedGroup(entries) == SortByKg(entries)

finalize_group(entries, bias) ==
    IF entries = << >> THEN entries
    ELSE LET max_kg == MaxKg(entries)
         IN  IF max_kg <= 0 THEN entries
             ELSE SortedGroup(
                      [i \in DOMAIN entries |->
                          LET rel == RelReduction(max_kg, entries[i].emissions_kg)
                          IN  [entries[i] EXCEPT !.reduction_pct = rel,
                                                 !.subsidy_pct = SubsidyOfRel(rel, bias)]])

build_leaderboards_from_emissions(ufile, efile, bias) ==
    LET all_users == load_users(ufile).rows
        groups == UserLoop(all_users, efile,
                      [exc |-> "none", hospitals |-> << >>, manufacturers |-> << >>])
    IN  IF groups.exc # "none" THEN groups
        ELSE [exc |-> "none",
              hospitals |-> finalize_group(groups.hospitals, bias),
              manufacturers |-> finalize_group(groups.manufacturers, bias)]

-----------------------------------------------------------------------------
(* build_leaderboards_from_data *)

\* A dataset is [absent, keys, name, levers]: keys are the keys its dicts hold
\* ("hospital_profile", "name" for hospital_profile.name, "levers").  An item
\* is [keys, tonnes, cost_cur, cost_alt, suppliers] in the same way.

\* load_market_data() of an absent data.json
NoData == [absent |-> TRUE, keys |-> {}, name |-> "", levers |-> << >>]

\* load_market_data: None when data.json is absent, else its content
load_market_data(file) == file

\* float(d.get(key, 0.0))
Num(item, key) == IF key \in item.keys THEN item[key] ELSE 0

RECURSIVE Concat(_)
Concat(ss) == IF ss = << >> THEN << >> ELSE Head(ss) \o Concat(Tail(ss))

\* iter_items that walks the first lever only
iter_items_FirstLever(data) ==
    IF "levers" \notin data.keys \/ data.levers = << >> THEN << >>
    ELSE Concat(data.levers[1])

\* _iter_items: levers -> sub_levers -> items, in dict order
iter_items(data) ==
    IF "levers" \notin data.keys THEN << >>
    ELSE Concat([l \in DOMAIN data.levers |-> Concat(data.levers[l])])

RECURSIVE SumOf(_, _)
SumOf(items, field) ==
    IF items = << >> THEN 0 ELSE Num(Head(items), field) + SumOf(Tail(items), field)

\* the cost-based reduction %
CostReduction(cost_cur, cost_alt) ==
    IF cost_cur > 0 THEN [n |-> (cost_cur - cost_alt) * 100, d |-> cost_cur] ELSE Zero

\* max(0.0, min(40.0, round(reduction_pct, 1)))
SubsidyOfCost(reduction_pct, bias) == ClampTenths(RoundTenths(reduction_pct, bias))

\* not data: None and the empty dict are both falsy
Falsy(data) == data.absent \/ data.keys = {}

\* data.get("hospital_profile", {}).get("name", "Unknown Hospital")
HospitalName(data) ==
    IF "hospital_profile" \notin data.keys \/ "name" \notin data.keys
    THEN "Unknown Hospital" ELSE data.name

\* tonnes -> kg, in thousandths of a kilogram
TonnesToKg(tonnes) == tonnes * 1000 * 1000

\* item.get("sourcing", {}).get("suppliers", [])
Suppliers(item) == IF "suppliers" \in item.keys THEN item.suppliers ELSE << >>

\* the accumulation into manufacturers: one pass over an item's suppliers.
\* m is [names, agg]: the dict's keys in insertion order and its values.
RECURSIVE AddSuppliers(_, _, _)
AddSuppliers(m, sups, item) ==
    IF sups = << >> THEN m
    ELSE LET s == Head(sups)
             seen == \E i \in DOMAIN m.names : m.names[i] = s
             old == IF seen THEN m.agg[s] ELSE [tonnes |-> 0, cost_cur |-> 0, cost_alt |-> 0]
             new == [tonnes |-> old.tonnes + Num(item, "tonnes"),
                     cost_cur |-> old.cost_cur + Num(item, "cost_cur"),
                     cost_alt |-> old.cost_alt + Num(item, "cost_alt")]
         IN  AddSuppliers(
                 [names |-> IF seen THEN m.names ELSE Append(m.names, s),
                  agg |-> [k \in DOMAIN m.agg \cup {s} |-> IF k = s THEN new ELSE m.agg[k]]],
                 Tail(sups), item)

RECURSIVE Manufacturers(_, _)
Manufacturers(items, m) ==
    IF items = << >> THEN m
    ELSE Manufacturers(Tail(items), AddSuppliers(m, Suppliers(Head(items)), Head(items)))

build_leaderboards_from_data(data, bias) ==
    IF Falsy(data) THEN [exc |-> "none", hospitals |-> << >>, manufacturers |-> << >>]
    ELSE LET items == iter_items(data)
             total_cost_current == SumOf(items, "cost_cur")
             total_cost_alt == SumOf(items, "cost_alt")
             reduction_pct == CostReduction(total_cost_current, total_cost_alt)
             m == Manufacturers(items, [names |-> << >>, agg |-> [k \in {} |-> 0]])
         IN  [exc |-> "none",
              hospitals |-> SortByKg(<<
                  [name |-> HospitalName(data),
                   emissions_kg |-> TonnesToKg(SumOf(items, "tonnes")),
                   reduction_pct |-> reduction_pct,
                   subsidy_pct |-> SubsidyOfCost(reduction_pct, bias)] >>),
              manufacturers |-> SortByKg(
                  [i \in DOMAIN m.names |->
                      LET agg == m.agg[m.names[i]]
                          red_pct == CostReduction(agg.cost_cur, agg.cost_alt)
                      IN  [name |-> m.names[i],
                           emissions_kg |-> TonnesToKg(agg.tonnes),
                           reduction_pct |-> red_pct,
                           subsidy_pct |-> SubsidyOfCost(red_pct, bias)]])]

-----------------------------------------------------------------------------
(* add_emission and add_user: load, append, rewrite the whole file *)

\* EmissionsToSave that reads the file again when it writes
EmissionsToSave_Reload(data, a) ==
    Append(load_emissions(emissionsFile).rows,
           NewEmission(load_emissions(emissionsFile).rows,
                       a.user_id, a.type, a.amount, a.unit))

\* the list add_emission writes back, from the data its load returned
EmissionsToSave(data, a) ==
    Append(data.rows, NewEmission(data.rows, a.user_id, a.type, a.amount, a.unit))

\* the list add_user writes back, from the data its load returned
UsersToSave(data, a) == Append(data.rows, NewUser(data.rows, a.email, a.name))

\* add_emission run alone: the file it leaves, or KeyError at data["emissions"]
add_emission(file, a) ==
    LET data == load_emissions(file)
    IN  IF ~data.haskey THEN [exc |-> "KeyError", file |-> file]
        ELSE [exc |-> "none", file |-> [kind |-> "ok", rows |-> EmissionsToSave(data, a)]]

\* add_user run alone
add_user(file, a) == [kind |-> "ok", rows |-> UsersToSave(load_users(file), a)]

-----------------------------------------------------------------------------
(* Bounds and input sets *)

MaxLog == 2          \* emission records in the leaderboard specifications
MaxLogTotals == 2    \* emission records in the aggregator specification
MaxItems == 2        \* items of a dataset
MaxAdds == 2         \* add_emission calls in the sequential specification

UserIds == {1, 2}
Biases == {0, 1}

People == {[email |-> "a@x", name |-> "A"], [email |-> "b@x", name |-> "B"]}

IdentityTypes == {S_hospital, S_Manufacturer, S_manufacturer_sp, None}

EmissionArgs(uids, types, amounts, units) ==
    [user_id : uids, type : types, amount : amounts, unit : units]

TotalsArgs ==
    EmissionArgs(UserIds, {"co2", "no2", "so2"}, {3},
                 {S_t, S_TONNES, S_Gram, S_kg, S_empty, S_sp_t, None})

\* co2 records of both users and ch4 records of the first
BoardArgs ==
    EmissionArgs(UserIds, {"co2"}, {-1, 15, 16}, {S_kg})
    \cup EmissionArgs({1}, {"ch4"}, {4}, {S_kg})

-----------------------------------------------------------------------------
(* The requests, each run from start to end *)

NoResp ==
    [op |-> "none", exc |-> "none", uid |-> 0, bias |-> 0,
     totals |-> Totals0, hospitals |-> << >>, manufacturers |-> << >>]

Idle == [p \in {"e1", "e2", "u1", "u2"} |-> "idle"]
NoSnap == [p \in {"e1", "e2", "u1", "u2"} |-> << >>]
NoReq == [p \in {"e1", "e2", "u1", "u2"} |-> << >>]

\* POST /signup: the fields are there and the email is new, then add_user
signup(people) ==
    \E a \in people :
        /\ a.name # ""
        /\ ~EmailTaken(usersFile, a.email)
        /\ usersFile' = add_user(usersFile, a)
        /\ resp' = [NoResp EXCEPT !.op = "redirect"]
        /\ UNCHANGED <<emissionsFile, dataFile, pc, snap, req, initRows>>

\* POST /set_identity: update_user_type(session["pending_user_id"], form value).
\* /signup puts the new user's id in the session and this request pops it, so
\* it runs once per signed-up user: for a user whose type is still "pending".
set_identity(types) ==
    \E i \in DOMAIN load_users(usersFile).rows, t \in types :
        /\ load_users(usersFile).rows[i].user_type = S_pending
        /\ usersFile' = update_user_type(usersFile, load_users(usersFile).rows[i].id, t)
        /\ resp' = [NoResp EXCEPT !.op = "redirect"]
        /\ UNCHANGED <<emissionsFile, dataFile, pc, snap, req, initRows>>

\* POST /add_emission
add_emission_route(argset, maxlen) ==
    \E a \in argset :
        LET r == add_emission(emissionsFile, a)
        IN  /\ Len(load_emissions(emissionsFile).rows) < maxlen
            /\ emissionsFile' = r.file
            /\ resp' = [NoResp EXCEPT !.op = "redirect", !.exc = r.exc]
            /\ UNCHANGED <<usersFile, dataFile, pc, snap, req, initRows>>

\* GET /dashboard
dashboard(uids) ==
    \E u \in uids :
        LET r == compute_totals_for_user(emissionsFile, u)
        IN  /\ resp' = [NoResp EXCEPT !.op = "dashboard", !.uid = u,
                            !.exc = r.exc, !.totals = r.totals]
            /\ UNCHANGED <<usersFile, emissionsFile, dataFile, pc, snap, req, initRows>>

\* GET /marketplace
marketplace ==
    \E b \in Biases :
        LET r == build_leaderboards_from_emissions(usersFile, emissionsFile, b)
        IN  /\ resp' = [NoResp EXCEPT !.op = "marketplace", !.bias = b, !.exc = r.exc,
                            !.hospitals = r.hospitals, !.manufacturers = r.manufacturers]
            /\ UNCHANGED <<usersFile, emissionsFile, dataFile, pc, snap, req, initRows>>

\* build_leaderboards_from_data(load_market_data())
data_board ==
    \E b \in Biases :
        LET r == build_leaderboards_from_data(load_market_data(dataFile), b)
        IN  /\ resp' = [NoResp EXCEPT !.op = "data", !.bias = b, !.exc = r.exc,
                            !.hospitals = r.hospitals, !.manufacturers = r.manufacturers]
            /\ UNCHANGED <<usersFile, emissionsFile, dataFile, pc, snap, req, initRows>>

\* the state after construction: no file written yet, nothing in flight
Init ==
    /\ usersFile = NoFile
    /\ emissionsFile = NoFile
    /\ dataFile = NoData
    /\ resp = NoResp
    /\ pc = Idle
    /\ snap = NoSnap
    /\ req = NoReq
    /\ initRows = << >>

-----------------------------------------------------------------------------
(* The aggregator: records logged one request at a time, then /dashboard *)

LogTotals == add_emission_route(TotalsArgs, MaxLogTotals)
DashboardTotals == dashboard(UserIds)

NextTotals == LogTotals \/ DashboardTotals

SpecTotals == Init /\ [][NextTotals]_vars

-----------------------------------------------------------------------------
(* The logged-emissions leaderboard *)

Signup == signup(People)
SetIdentity == set_identity(IdentityTypes)
LogBoard == add_emission_route(BoardArgs, MaxLog)

NextBoards == Signup \/ SetIdentity \/ LogBoard \/ marketplace

SpecBoards == Init /\ [][NextBoards]_vars

-----------------------------------------------------------------------------
(* The dataset leaderboard *)

\* sequences of at most n elements of S
SeqsUpTo(S, n) == UNION {[1..k -> S] : k \in 0..n}

\* the nestings of a sequence of items: one sub-lever holding them all, one
\* sub-lever per item under one lever, one lever per item
Nestings(items) ==
    { << <<items>> >>,
      << [i \in DOMAIN items |-> <<items[i]>>] >>,
      [i \in DOMAIN items |-> << <<items[i]>> >>] }

Datasets(itemset, n, profiles) ==
    {NoData}
    \cup {[absent |-> FALSE, keys |-> {}, name |-> "", levers |-> << >>]}
    \cup {[absent |-> FALSE, keys |-> k, name |-> "H", levers |-> << >>] : k \in profiles \ {{}}}
    \cup {[absent |-> FALSE, keys |-> k \cup {"levers"}, name |-> "H", levers |-> l] :
             k \in profiles,
             l \in UNION {Nestings(items) : items \in SeqsUpTo(itemset, n)}}

\* hospital_profile: not there, there without a name, there with its name
Profiles == {{}, {"hospital_profile"}, {"hospital_profile", "name"}}

AllKeys == {"tonnes", "cost_cur", "cost_alt", "suppliers"}

Costs ==
    {[cost_cur |-> 0, cost_alt |-> 800], [cost_cur |-> 1000, cost_alt |-> 800],
     [cost_cur |-> 16, cost_alt |-> 15], [cost_cur |-> 1000, cost_alt |-> 3000],
     [cost_cur |-> 16, cost_alt |-> -160]}

DataItems ==
    {[keys |-> AllKeys, tonnes |-> t, cost_cur |-> c.cost_cur, cost_alt |-> c.cost_alt,
      suppliers |-> <<"M1">>] : t \in {1, 2}, c \in Costs}
    \cup {[keys |-> k, tonnes |-> 1, cost_cur |-> 1000, cost_alt |-> 800,
           suppliers |-> <<"M2", "M1", "M2">>] :
             k \in {AllKeys, {"suppliers"}, AllKeys \ {"suppliers"}, AllKeys \ {"cost_cur"}}}

InitData ==
    /\ usersFile = NoFile
    /\ emissionsFile = NoFile
    /\ dataFile \in Datasets(DataItems, MaxItems, Profiles)
    /\ resp = NoResp
    /\ pc = Idle
    /\ snap = NoSnap
    /\ req = NoReq
    /\ initRows = << >>

NextData == data_board

SpecData == InitData /\ [][NextData]_vars

-----------------------------------------------------------------------------
(* Both leaderboards *)

BothItems ==
    {[keys |-> AllKeys, tonnes |-> 2, cost_cur |-> 1000, cost_alt |-> 3000,
      suppliers |-> <<"M1">>],
     [keys |-> AllKeys, tonnes |-> 1, cost_cur |-> 16, cost_alt |-> -160,
      suppliers |-> <<"M2", "M1">>]}

BothArgs ==
    EmissionArgs(UserIds, {"co2"}, {1}, {S_kg}) \cup EmissionArgs({1}, {"co2"}, {2}, {S_kg})

InitBoth ==
    /\ usersFile = NoFile
    /\ emissionsFile = NoFile
    /\ dataFile \in Datasets(BothItems, MaxItems, {{"hospital_profile", "name"}})
    /\ resp = NoResp
    /\ pc = Idle
    /\ snap = NoSnap
    /\ req = NoReq
    /\ initRows = << >>

SetIdentityBoth == set_identity({S_manufacturer})
LogBoth == add_emission_route(BothArgs, MaxLog)

NextBoth == Signup \/ SetIdentityBoth \/ LogBoth \/ marketplace \/ data_board

SpecBoth == InitBoth /\ [][NextBoth]_vars

-----------------------------------------------------------------------------
(* Requests that overlap: add_emission and add_user as a load step and a    *)
(* save step.  e1, e2 run add_emission; u1, u2 run add_user.                *)

ConcEmissionArgs == EmissionArgs(UserIds, {"co2"}, {1, 2}, {S_kg})

\* data = load_emissions(); the arguments are those of the call
AddEmissionLoad(p) ==
    /\ pc[p] = "idle"
    /\ \E a \in ConcEmissionArgs : req' = [req EXCEPT ![p] = a]
    /\ snap' = [snap EXCEPT ![p] = load_emissions(emissionsFile)]
    /\ pc' = [pc EXCEPT ![p] = "loaded"]
    /\ UNCHANGED <<usersFile, emissionsFile, dataFile, resp, initRows>>

\* emissions.append(record); save_emissions(data)
AddEmissionSave(p) ==
    /\ pc[p] = "loaded"
    /\ emissionsFile' = [kind |-> "ok", rows |-> EmissionsToSave(snap[p], req[p])]
    /\ pc' = [pc EXCEPT ![p] = "done"]
    /\ UNCHANGED <<usersFile, dataFile, resp, snap, req, initRows>>

\* data = load_users()
AddUserLoad(p) ==
    /\ pc[p] = "idle"
    /\ \E a \in People : req' = [req EXCEPT ![p] = a]
    /\ snap' = [snap EXCEPT ![p] = load_users(usersFile)]
    /\ pc' = [pc EXCEPT ![p] = "loaded"]
    /\ UNCHANGED <<usersFile, emissionsFile, dataFile, resp, initRows>>

\* users.append(user); save_users(data)
AddUserSave(p) ==
    /\ pc[p] = "loaded"
    /\ usersFile' = [kind |-> "ok", rows |-> UsersToSave(snap[p], req[p])]
    /\ pc' = [pc EXCEPT ![p] = "done"]
    /\ UNCHANGED <<emissionsFile, dataFile, resp, snap, req, initRows>>

EmissionLoads == \E p \in {"e1", "e2"} : AddEmissionLoad(p)
EmissionSaves == \E p \in {"e1", "e2"} : AddEmissionSave(p)
UserLoads == \E p \in {"u1", "u2"} : AddUserLoad(p)
UserSaves == \E p \in {"u1", "u2"} : AddUserSave(p)

NextConc == EmissionLoads \/ EmissionSaves \/ UserLoads \/ UserSaves

SpecConc == Init /\ [][NextConc]_vars

-----------------------------------------------------------------------------
(* add_emission calls one at a time, from any store with distinct ids *)

SeqRecord(id) == [id |-> id, user_id |-> 1, type |-> "co2", amount |-> 1, unit |-> S_kg]

\* the sequences of at most two records with distinct ids among 1..3
DistinctStores ==
    {[i \in DOMAIN ids |-> SeqRecord(ids[i])] :
        ids \in {q \in SeqsUpTo({1, 2, 3}, 2) : \A i, j \in DOMAIN q : i # j => q[i] # q[j]}}

InitSeq ==
    /\ usersFile = NoFile
    /\ emissionsFile \in {NoFile} \cup {[kind |-> "ok", rows |-> r] : r \in DistinctStores}
    /\ dataFile = NoData
    /\ resp = NoResp
    /\ pc = Idle
    /\ snap = NoSnap
    /\ req = NoReq
    /\ initRows = emissionsFile.rows

LogSeq == add_emission_route(ConcEmissionArgs, Len(initRows) + MaxAdds)

NextSeq == LogSeq

SpecSeq == InitSeq /\ [][NextSeq]_vars

-----------------------------------------------------------------------------
(* Stores found absent, unparseable or without their key *)

LoadUser(id, t) == [id |-> id, email |-> "a@x", name |-> "A", user_type |-> t]

UserFiles ==
    {NoFile, [kind |-> "garbage", rows |-> << >>], [kind |-> "nokey", rows |-> << >>]}
    \cup {[kind |-> "ok", rows |-> r] :
             r \in {<< >>} \cup {<<LoadUser(1, t)>> : t \in {S_pending, S_manufacturer}}
                   \cup {<<LoadUser(1, S_hospital), LoadUser(2, S_manufacturer)>>}}

EmissionFiles ==
    {NoFile, [kind |-> "garbage", rows |-> << >>], [kind |-> "nokey", rows |-> << >>]}
    \cup {[kind |-> "ok", rows |-> r] :
             r \in {<< >>, <<SeqRecord(1)>>,
                    <<SeqRecord(1), [SeqRecord(2) EXCEPT !.user_id = 2]>>}}

InitLoad ==
    /\ usersFile \in UserFiles
    /\ emissionsFile \in EmissionFiles
    /\ dataFile = NoData
    /\ resp = NoResp
    /\ pc = Idle
    /\ snap = NoSnap
    /\ req = NoReq
    /\ initRows = << >>

NextLoad == DashboardTotals \/ marketplace

SpecLoad == InitLoad /\ [][NextLoad]_vars

-----------------------------------------------------------------------------
(* Properties *)

Gases == {"co2", "no2", "ch4"}

Boards == {"hospitals", "manufacturers"}

\* the largest emissions_kg of a non-empty list of entries
LargestKg(entries) ==
    LET kgs == {entries[i].emissions_kg : i \in DOMAIN entries}
    IN  CHOOSE m \in kgs : \A k \in kgs : k <= m

\* how often x occurs in the sequence s
Count(s, x) == Cardinality({i \in DOMAIN s : s[i] = x})

(* ---- C6 ---- *)

SameIgnoringCase(a, b) == Lower(a) = Lower(b)

\* the amount of a record in thousandths of a kilogram, by the claim's rule
C6_Kg(e) ==
    LET unit == IF e.unit = None THEN S_empty ELSE e.unit
    IN  IF \E w \in {S_tonne, S_tonnes, S_t} : SameIgnoringCase(unit, w)
        THEN 1000 * (1000 * e.amount)
        ELSE IF \E w \in {S_g, S_gram, S_grams} : SameIgnoringCase(unit, w)
        THEN e.amount
        ELSE 1000 * e.amount

RECURSIVE C6_SumOver(_, _)
C6_SumOver(idx, rows) ==
    IF idx = {} THEN 0
    ELSE LET i == CHOOSE i \in idx : TRUE
         IN  C6_Kg(rows[i]) + C6_SumOver(idx \ {i}, rows)

C6_Sum(rows, user_id, gas) ==
    C6_SumOver({i \in DOMAIN rows : rows[i].user_id = user_id /\ rows[i].type = gas}, rows)

\* C6: compute_totals_for_user returns exactly the keys co2, no2 and ch4, and
\* each total is the sum, over the user's records of that gas, of the amount
\* normalised to kilograms (tonne/tonnes/t times 1000, g/gram/grams divided
\* by 1000, anything else unchanged, the unit compared ignoring case); other
\* users' records and records of another type change nothing and raise nothing.
C6_TotalsAreSums ==
    resp.op = "dashboard" =>
        /\ resp.exc = "none"
        /\ DOMAIN resp.totals = Gases
        /\ \A g \in Gases : resp.totals[g] = C6_Sum(emissionsFile.rows, resp.uid, g)

\* a dashboard of a user with a record in upper-case tonnes, beside a record
\* of an untracked gas and a record of another user
C6_Witness ==
    /\ resp.op = "dashboard"
    /\ \E i, j, k \in DOMAIN emissionsFile.rows :
           /\ emissionsFile.rows[i].user_id = resp.uid
           /\ emissionsFile.rows[i].type = "co2"
           /\ emissionsFile.rows[i].unit = S_TONNES
           /\ resp.totals.co2 >= 3000000
           /\ \/ emissionsFile.rows[j].type = "so2" /\ emissionsFile.rows[j].user_id = resp.uid
              \/ emissionsFile.rows[k].user_id # resp.uid

(* ---- C2 ---- *)

C3_RoundThenClamp ==
    resp.op = "marketplace" /\ resp.exc = "none" =>
        \A b \in Boards :
            LET g == resp[b]
            IN  (g # << >> /\ LargestKg(g) > 0) =>
                    \A i \in DOMAIN g :
                        g[i].subsidy_pct =
                            ClampTenths(RoundTenths(g[i].reduction_pct, resp.bias))

\* a leaderboard with an entry whose reduction is above 40 %
C3_Witness ==
    /\ resp.op = "marketplace"
    /\ \E b \in Boards : \E i \in DOMAIN resp[b] :
           /\ resp[b][i].reduction_pct.n > 40 * resp[b][i].reduction_pct.d
           /\ resp[b][i].subsidy_pct = 400

(* ---- C4 ---- *)

C4_Users == load_users(usersFile).rows

C4_TotalKg(u) == TotalKg(compute_totals_for_user(emissionsFile, u.id).totals)

\* user_type is "manufacturer" but for the case of its letters and, with
\* stripped, for surrounding white space
C4_IsManufacturer(u, stripped) ==
    IF stripped THEN Strip(Lower(OrEmpty(u.user_type))) = S_manufacturer
    ELSE Lower(OrEmpty(u.user_type)) = S_manufacturer

\* the [name, kg] of each user, in store order, that the rule puts in a group
RECURSIVE C4_Pick(_, _, _)
C4_Pick(users, stripped, manufacturers) ==
    IF users = << >> THEN << >>
    ELSE LET u == Head(users)
             rest == C4_Pick(Tail(users), stripped, manufacturers)
         IN  IF C4_TotalKg(u) > 0 /\ (C4_IsManufacturer(u, stripped) <=> manufacturers)
             THEN <<[name |-> NameOf(u), kg |-> C4_TotalKg(u)]>> \o rest
             ELSE rest

C4_Keys(entries) ==
    [i \in DOMAIN entries |-> [name |-> entries[i].name, kg |-> entries[i].emissions_kg]]

\* the same entries, each as often
C4_SameBag(s, t) ==
    /\ Len(s) = Len(t)
    /\ \A i \in DOMAIN s : Count(s, s[i]) = Count(t, s[i])

C4_Holds(stripped) ==
    resp.op = "marketplace" /\ resp.exc = "none" =>
        /\ C4_SameBag(C4_Keys(resp.manufacturers), C4_Pick(C4_Users, stripped, TRUE))
        /\ C4_SameBag(C4_Keys(resp.hospitals), C4_Pick(C4_Users, stripped, FALSE))

\* C4 as claimed: a user is in the output iff its total_kg is above 0, once,
\* in the manufacturer group iff its user_type matches "manufacturer" ignoring
\* case, and in the hospital group otherwise.
C4_Original == C4_Holds(FALSE)

\* C4 as amended: ... in the manufacturer group iff its user_type, lower-cased
\* and stripped of surrounding white space, is "manufacturer".
C4_Membership == C4_Holds(TRUE)

\* a leaderboard that lists the user whose type is "manufacturer " among the
\* manufacturers and leaves out the other user, whose total is below 0
C4_Witness ==
    /\ resp.op = "marketplace"
    /\ Len(C4_Users) = 2
    /\ C4_Users[1].user_type = S_manufacturer_sp
    /\ Len(resp.manufacturers) = 1
    /\ resp.hospitals = << >>
    /\ C4_TotalKg(C4_Users[2]) < 0

(* ---- C1 ---- *)

\* C1: every entry of both lists either builder returns has
\* 0 <= subsidy_pct <= 40, however far below 0 or above 40 its reduction is.
C1_SubsidyInBand ==
    resp.op \in {"marketplace", "data"} =>
        \A b \in Boards : \A i \in DOMAIN resp[b] :
            resp[b][i].subsidy_pct >= 0 /\ resp[b][i].subsidy_pct <= 400

\* a dataset leaderboard with a manufacturer whose reduction is below 0 and
\* one whose reduction is above 100 %
C1_Witness ==
    /\ resp.op = "data"
    /\ \E i, j \in DOMAIN resp.manufacturers :
           /\ resp.manufacturers[i].reduction_pct.n < 0
           /\ resp.manufacturers[i].subsidy_pct = 0
           /\ resp.manufacturers[j].reduction_pct.n > 100 * resp.manufacturers[j].reduction_pct.d
           /\ resp.manufacturers[j].subsidy_pct = 400

(* ---- C5 ---- *)

\* C5: both lists of both builders are in non-decreasing order of
\* emissions_kg, groups of one entry and groups with ties included.
C5_SortedByKg ==
    resp.op \in {"marketplace", "data"} =>
        \A b \in Boards : \A i, j \in DOMAIN resp[b] :
            i < j => resp[b][i].emissions_kg <= resp[b][j].emissions_kg

\* a logged-emissions leaderboard whose two manufacturers come out in the
\* reverse of their order in the user store
C5_Witness ==
    /\ resp.op = "marketplace"
    /\ Len(resp.manufacturers) = 2
    /\ Len(C4_Users) = 2
    /\ resp.manufacturers[1].emissions_kg = C4_TotalKg(C4_Users[2])
    /\ resp.manufacturers[2].emissions_kg = C4_TotalKg(C4_Users[1])
    /\ C4_TotalKg(C4_Users[2]) < C4_TotalKg(C4_Users[1])

(* ---- C10 ---- *)

RECURSIVE C10_Sum(_, _, _)
\* the sum of a field over levers (depth 3), sub-levers (2) or items (1)
C10_Sum(xs, depth, field) ==
    IF xs = << >> THEN 0
    ELSE (IF depth = 1
          THEN (IF field \in Head(xs).keys THEN Head(xs)[field] ELSE 0)
          ELSE C10_Sum(Head(xs), depth - 1, field))
         + C10_Sum(Tail(xs), depth, field)

C10_Total(field) ==
    IF "levers" \in dataFile.keys THEN C10_Sum(dataFile.levers, 3, field) ELSE 0

C10_Empty == resp.hospitals = << >> /\ resp.manufacturers = << >>

C10_OneHospital ==
    /\ Len(resp.hospitals) = 1
    /\ resp.hospitals[1].emissions_kg = 1000 * (1000 * C10_Total("tonnes"))
    /\ IF C10_Total("cost_cur") > 0
       THEN /\ resp.hospitals[1].reduction_pct.n =
                   (C10_Total("cost_cur") - C10_Total("cost_alt")) * 100
            /\ resp.hospitals[1].reduction_pct.d = C10_Total("cost_cur")
       ELSE /\ resp.hospitals[1].reduction_pct.n = 0
            /\ resp.hospitals[1].subsidy_pct = 0

\* C10 as claimed: two empty lists when the dataset is absent; for every
\* present dataset exactly one hospital entry, whose emissions_kg is 1000
\* times the summed annual_co2e_tonnes and whose reduction_pct is
\* (cost_current - cost_alt) / cost_current * 100 over the summed costs when
\* the summed cost_current is above 0, and 0 (with subsidy_pct 0) otherwise.
C10_Original ==
    resp.op = "data" => IF dataFile.absent THEN C10_Empty ELSE C10_OneHospital

\* C10 as amended: two empty lists when the dataset is absent or an empty
\* object; for every other dataset exactly one hospital entry, as claimed.
C10_HospitalAggregate ==
    resp.op = "data" =>
        IF dataFile.absent \/ dataFile.keys = {} THEN C10_Empty ELSE C10_OneHospital

\* a dataset of two items in two levers, each costing 1000 now and 800 with
\* the alternative: reduction 20 %, subsidy 20.0
C10_Witness ==
    /\ resp.op = "data"
    /\ Len(dataFile.levers) = 2
    /\ C10_Total("cost_cur") = 2000
    /\ C10_Total("cost_alt") = 1600
    /\ Len(resp.hospitals) = 1
    /\ resp.hospitals[1].subsidy_pct = 200

(* ---- C7 ---- *)

BadKinds == {"absent", "garbage", "nokey"}

\* C7: with the emissions file (or the users file) absent, unparseable or
\* without its top-level key, compute_totals_for_user returns all-zero totals
\* and build_leaderboards_from_emissions returns two empty lists, and no
\* exception propagates.
C7_BadStoreIsEmpty ==
    /\ (resp.op = "dashboard" /\ emissionsFile.kind \in BadKinds) =>
           resp.exc = "none" /\ resp.totals = Totals0
    /\ (resp.op = "marketplace"
            /\ (emissionsFile.kind \in BadKinds \/ usersFile.kind \in BadKinds)) =>
           resp.exc = "none" /\ resp.hospitals = << >> /\ resp.manufacturers = << >>

(* ---- C8 ---- *)

\* both calls of a pair are over, and both loaded before either saved
Overlapped(p, q) == pc[p] = "done" /\ pc[q] = "done" /\ snap[p] = snap[q]

\* C8: when two add_emission calls both load before either saves, both
\* complete and the store holds the snapshot plus the record of the last
\* writer alone: it grew by 1, not 2.  The same for two add_user calls.
C8_LostUpdate ==
    /\ Overlapped("e1", "e2") =>
           LET rows == emissionsFile.rows
           IN  /\ Len(rows) = Len(snap["e1"].rows) + 1
               /\ SubSeq(rows, 1, Len(rows) - 1) = snap["e1"].rows
               /\ \E p \in {"e1", "e2"} :
                      /\ rows[Len(rows)].user_id = req[p].user_id
                      /\ rows[Len(rows)].amount = req[p].amount
    /\ Overlapped("u1", "u2") =>
           LET rows == usersFile.rows
           IN  /\ Len(rows) = Len(snap["u1"].rows) + 1
               /\ SubSeq(rows, 1, Len(rows) - 1) = snap["u1"].rows
               /\ \E p \in {"u1", "u2"} : rows[Len(rows)].email = req[p].email

\* both pairs of calls are over, each pair overlapped with different
\* arguments, and each store holds one record
C8_Witness ==
    /\ Overlapped("e1", "e2") /\ req["e1"] # req["e2"]
    /\ Overlapped("u1", "u2") /\ req["u1"] # req["u2"]
    /\ Len(emissionsFile.rows) = 1
    /\ Len(usersFile.rows) = 1

(* ---- C9 ---- *)

C9_Ids(rows) == {rows[i].id : i \in DOMAIN rows}

\* one add_emission call: the records stored before stay as and where they
\* were, and one record follows them, whose id is max(existing ids) + 1
C9_Step ==
    emissionsFile' # emissionsFile =>
        LET old == emissionsFile.rows
            new == emissionsFile'.rows
        IN  /\ Len(new) = Len(old) + 1
            /\ SubSeq(new, 1, Len(old)) = old
            /\ \A k \in C9_Ids(old) : new[Len(new)].id > k
            /\ old = << >> => new[Len(new)].id = 1
            /\ old # << >> => new[Len(new)].id - 1 \in C9_Ids(old)

\* the ids stay pairwise distinct, and every record added is above all the
\* records before it
C9_Distinct ==
    \A i, j \in DOMAIN emissionsFile.rows :
        i < j =>
            /\ emissionsFile.rows[i].id # emissionsFile.rows[j].id
            /\ j > Len(initRows) => emissionsFile.rows[i].id < emissionsFile.rows[j].id

====
